---- MODULE Spec2Model ----
(***************************************************************************)
(* Model of server/src/infra/sql-generator/index.ts: the SqlGenerator      *)
(* batch run (setup, process every repository, write, stats, close) and    *)
(* the top-level promise chain that turns the outcome into an exit status. *)
(*                                                                         *)
(* A text with newlines is a sequence of lines; a line is a tuple of       *)
(* strings (the pieces it is concatenated from), the blank line is << >>.  *)
(***************************************************************************)
EXTENDS Integers, Sequences, FiniteSets, TLC

\* Most statements one invocation of a target method issues.
MaxStmts == 2
\* Number of consecutive runs of the tool (processes started one after another).
NumRuns == 2

VARIABLES
    pc,        \* position of the control thread
    run,       \* number of the current process
    exitCode,  \* process.exit status, -1 while running
    err,       \* an exception is propagating / run()'s promise is rejected
    app,       \* this.app is set
    appClosed, \* app.close() has been called
    dir,       \* options.targetDir: [exists, files], files: filename -> content
    results,   \* this.results, in insertion order: sequence of [name, data]
    queries,   \* this.sqlLogger.queries
    meta,      \* capture metadata per method (the arrays the reflector returns)
    repoIdx, instIdx, keyIdx, caseIdx, writeIdx,   \* loop positions
    data,      \* runTargets' local data
    pdata,     \* process' local data
    statsOut,  \* the numbers printed by stats()
    trace,     \* history: phases of run() in the order they started
    thrown,    \* history: phases that let an error escape
    issued,    \* history: statements the data layer issued during each case
    outcome,   \* history: how each case's invocation ended
    invoked,   \* history: invocations made, <<case, params>>
    prevDir, prevIssued, prevOutcome   \* the previous run's files and behaviour

loopVars == <<repoIdx, instIdx, keyIdx, caseIdx, writeIdx>>
histVars == <<trace, thrown, issued, outcome, invoked>>
prevVars == <<prevDir, prevIssued, prevOutcome>>
vars == <<pc, run, exitCode, err, app, appClosed, dir, results, queries, meta,
          loopVars, data, pdata, statsOut, histVars, prevVars>>

----------------------------------------------------------------------------
\* The collaborators: the repository list and the classes behind it.

repositories == <<"AccessRepository", "AlbumRepository">>

NameChars(name) ==
    CASE name = "AccessRepository" ->
           <<"A","c","c","e","s","s","R","e","p","o","s","i","t","o","r","y">>
      [] name = "AlbumRepository" ->
           <<"A","l","b","u","m","R","e","p","o","s","i","t","o","r","y">>
      [] name = "JobRepository" ->
           <<"J","o","b","R","e","p","o","s","i","t","o","r","y">>

\* Object.keys(instance): the instance's own enumerable properties.
ObjectKeys(name) ==
    IF name = "AccessRepository" THEN <<"asset">> ELSE <<"repository">>

\* Object.getOwnPropertyNames(Object.getPrototypeOf(instance)), by label.
getPropertyNames(label) ==
    CASE label = <<"AccessRepository">> -> <<"constructor">>
      [] label = <<"AccessRepository", "asset">> -> <<"constructor", "checkOwnerAccess">>
      [] label = <<"AlbumRepository">> -> <<"constructor", "getById", "version", "getAll">>
      [] OTHER -> <<"find">>

\* target instanceof Function
IsFunction(label, key) == key # "version"

Labels == {<<"AccessRepository">>, <<"AccessRepository", "asset">>, <<"AlbumRepository">>,
           <<"AlbumRepository", "repository">>}

Range(s) == {s[i] : i \in DOMAIN s}

MethodIds == {<<l, k>> : l \in Labels, k \in {"constructor", "checkOwnerAccess", "getById",
                                               "version", "getAll", "find"}}

\* The metadata the GenerateSql decorator attached to a method: absent
\* (defined = FALSE) or a list of cases {name, params}; name "" stands for an
\* absent name.
DeclaredQueries(m) ==
    CASE m = <<<<"AccessRepository", "asset">>, "checkOwnerAccess">> ->
           [defined |-> TRUE,
            cases |-> <<[name |-> "", params |-> <<"userId", "assetIds">>]>>]
      [] m = <<<<"AlbumRepository">>, "getById">> ->
           [defined |-> TRUE,
            cases |-> <<[name |-> "", params |-> <<"id">>],
                        [name |-> "withAssets", params |-> <<"id", "withAssets">>]>>]
      [] m = <<<<"AlbumRepository">>, "getAll">> -> [defined |-> TRUE, cases |-> << >>]
      [] OTHER -> [defined |-> FALSE, cases |-> << >>]

\* Number of cases a method declares (0 also when it has no metadata).
NumDeclared(m) == Len(DeclaredQueries(m).cases)

\* Number of invocation cases of a method: none without metadata, one for
\* empty metadata.
CaseSlots(m) ==
    IF ~DeclaredQueries(m).defined THEN 0
    ELSE IF NumDeclared(m) = 0 THEN 1 ELSE NumDeclared(m)

CaseIds == UNION {{<<m[1], m[2], i>> : i \in 1..CaseSlots(m)} : m \in MethodIds}

\* The i-th statement a method issues (the text does not depend on the case).
Stmt(key, i) == <<"SELECT", key, ToString(i)>>

----------------------------------------------------------------------------
\* Pure helpers of the generator.

NOTE == <<"-- NOTE: This file is auto generated by ./sql-generator">>

Upper == <<"A","B","C","D","E","F","G","H","I","J","K","L","M",
           "N","O","P","Q","R","S","T","U","V","W","X","Y","Z">>
Lower == <<"a","b","c","d","e","f","g","h","i","j","k","l","m",
           "n","o","p","q","r","s","t","u","v","w","x","y","z">>

toLowerCase(ch) ==
    IF \E i \in DOMAIN Upper : Upper[i] = ch
    THEN Lower[CHOOSE i \in DOMAIN Upper : Upper[i] = ch]
    ELSE ch

RECURSIVE replaceAllUpper(_)
\* repoName.replaceAll(/[A-Z]/g, (letter) => `.${letter.toLowerCase()}`)
replaceAllUpper(s) ==
    IF s = << >> THEN << >>
    ELSE (IF Head(s) \in Range(Upper) THEN <<".", toLowerCase(Head(s))>> ELSE <<Head(s)>>)
         \o replaceAllUpper(Tail(s))

RECURSIVE replaceFirstDot(_)
\* .replace('.', ''): removes the first '.' only
replaceFirstDot(s) ==
    IF s = << >> THEN << >>
    ELSE IF Head(s) = "." THEN Tail(s)
    ELSE <<Head(s)>> \o replaceFirstDot(Tail(s))

\* the file name of a repository, `${filename}.sql`
FileName(repoName) ==
    replaceFirstDot(replaceAllUpper(NameChars(repoName))) \o <<".", "s", "q", "l">>

\* queryLabel: `${label}.${key}`, plus ` (${name})` when the case has a name
QueryLabel(label, key, name) ==
    label \o <<key>> \o (IF name # "" THEN <<"(", name, ")">> ELSE << >>)

\* [`-- ${queryLabel}`, ...this.sqlLogger.queries].join('\n')
Block(queryLabel, qs) == <<(<<"--">> \o queryLabel)>> \o qs

RECURSIVE JoinBlocks(_)
\* data.join('\n\n') + '\n'
JoinBlocks(d) ==
    IF d = << >> THEN << >>
    ELSE IF Len(d) = 1 THEN d[1]
    ELSE d[1] \o << << >> >> \o JoinBlocks(Tail(d))

\* SqlLogger.clear()
clear(qs) == << >>

\* SqlLogger.logQuery(query)
logQuery(qs, q) == Append(qs, q)

\* this.results[name] = value
SetResult(res, name, value) ==
    IF \E i \in DOMAIN res : res[i].name = name
    THEN [i \in DOMAIN res |-> IF res[i].name = name
                               THEN [name |-> name, data |-> value] ELSE res[i]]
    ELSE Append(res, [name |-> name, data |-> value])

RECURSIVE Flat(_)
\* Object.values(this.results).flat()
Flat(res) == IF res = << >> THEN << >> ELSE Head(res).data \o Flat(Tail(res))

EmptyFiles == [f \in {} |-> << >>]

\* rm(targetDir, { force: true, recursive: true })
rm(d) == [exists |-> FALSE, files |-> EmptyFiles]

\* mkdir(targetDir)
mkdir(d) == [exists |-> TRUE, files |-> d.files]

\* writeFile(file, content)
writeFile(d, name, content) ==
    [d EXCEPT !.files = [f \in (DOMAIN d.files) \cup {name} |->
                            IF f = name THEN content ELSE d.files[f]]]

----------------------------------------------------------------------------
\* Where the loops of run / process / runTargets stand.

\* process: the instance itself, then (AccessRepository only) its nested objects
Instances(name) ==
    << <<name>> >> \o
    (IF name = "AccessRepository"
     THEN [i \in 1..Len(ObjectKeys(name)) |-> <<name, ObjectKeys(name)[i]>>]
     ELSE << >>)

Repo == repositories[repoIdx]
CurLabel == Instances(Repo)[instIdx]
CurKeys == getPropertyNames(CurLabel)
CurKey == CurKeys[keyIdx]
CurMethod == <<CurLabel, CurKey>>
CurCase == <<CurLabel, CurKey, caseIdx>>

\* Stale directory contents a run may find.
OldText == << NOTE, << >>, <<"--", "stale">> >>
StaleDirs ==
    { [exists |-> FALSE, files |-> EmptyFiles],
      [exists |-> TRUE, files |-> EmptyFiles],
      [exists |-> TRUE,
       files |-> (FileName("JobRepository") :> OldText) @@ (FileName("AlbumRepository") :> OldText)] }

NoIssued == [c \in CaseIds |-> << >>]
NoOutcome == [c \in CaseIds |-> "none"]

\* State of a freshly started process: field initialisers, lines 54-58.
Fresh ==
    /\ pc = "setup"
    /\ exitCode = -1
    /\ err = FALSE
    /\ app = FALSE
    /\ appClosed = FALSE
    /\ results = << >>
    /\ queries = << >>
    /\ meta = [m \in MethodIds |-> DeclaredQueries(m)]
    /\ repoIdx = 1 /\ instIdx = 1 /\ keyIdx = 1 /\ caseIdx = 1 /\ writeIdx = 1
    /\ data = << >>
    /\ pdata = << >>
    /\ statsOut = << >>
    /\ trace = << >>
    /\ thrown = {}
    /\ issued = NoIssued
    /\ outcome = NoOutcome
    /\ invoked = << >>

Init ==
    /\ Fresh
    /\ run = 1
    /\ dir \in StaleDirs
    /\ prevDir = [exists |-> FALSE, files |-> EmptyFiles]
    /\ prevIssued = NoIssued
    /\ prevOutcome = NoOutcome

\* Variant: the exception reaches the caller without the finally block.
ThrowPastFinally(phase) ==
    /\ pc' = "settled"
    /\ err' = TRUE
    /\ thrown' = thrown \cup {phase}

\* An exception leaves the try block of run(): control goes to the finally.
Throw(phase) ==
    /\ pc' = "finally"
    /\ err' = TRUE
    /\ thrown' = thrown \cup {phase}

\* Variant: the directory is created if missing but not deleted first.
MkdirOnly(d) == mkdir(d)

\* setup(): the target directory is deleted, then created
CleanSlate(d) == mkdir(rm(d))

\* setup(): rm, mkdir, compile the testing module, init the application.
Setup ==
    /\ pc = "setup"
    /\ trace' = Append(trace, "setup")
    /\ \E o \in {"ok", "rm fails", "mkdir fails", "init fails"} :
         /\ dir' = CASE o = "rm fails" -> dir
                     [] o = "mkdir fails" -> rm(dir)
                     [] OTHER -> CleanSlate(dir)
         /\ app' = (o = "ok")
         /\ IF o = "ok"
            THEN pc' = "process" /\ UNCHANGED <<err, thrown>>
            ELSE Throw("setup")
    /\ UNCHANGED <<run, exitCode, appClosed, results, queries, meta, loopVars, data, pdata,
                   statsOut, issued, outcome, invoked, prevVars>>

\* run(): the loop over the repositories has one more to process; process()
\* up to its first runTargets call.
ProcessStart ==
    /\ pc = "process"
    /\ repoIdx <= Len(repositories)
    /\ trace' = IF repoIdx = 1 THEN Append(trace, "process") ELSE trace
    /\ IF ~app
       THEN /\ Throw("process")
            /\ UNCHANGED <<pdata, data, instIdx, keyIdx>>
       ELSE /\ pdata' = << <<NOTE>> >>
            /\ data' = << >>
            /\ instIdx' = 1
            /\ keyIdx' = 1
            /\ pc' = "keys"
            /\ UNCHANGED <<err, thrown>>
    /\ UNCHANGED <<run, exitCode, app, appClosed, dir, results, queries, meta, repoIdx,
                   caseIdx, writeIdx, statsOut, issued, outcome, invoked, prevVars>>

\* runTargets: the key is not a function
SkipNonFunction ==
    /\ pc = "keys"
    /\ keyIdx <= Len(CurKeys)
    /\ ~IsFunction(CurLabel, CurKey)
    /\ keyIdx' = keyIdx + 1
    /\ UNCHANGED <<pc, run, exitCode, err, app, appClosed, dir, results, queries, meta,
                   repoIdx, instIdx, caseIdx, writeIdx, data, pdata, statsOut, histVars,
                   prevVars>>

\* runTargets: the method carries no capture metadata
SkipNoMetadata ==
    /\ pc = "keys"
    /\ keyIdx <= Len(CurKeys)
    /\ IsFunction(CurLabel, CurKey)
    /\ ~meta[CurMethod].defined
    /\ keyIdx' = keyIdx + 1
    /\ UNCHANGED <<pc, run, exitCode, err, app, appClosed, dir, results, queries, meta,
                   repoIdx, instIdx, caseIdx, writeIdx, data, pdata, statsOut, histVars,
                   prevVars>>

\* Variant: empty metadata is left empty.
WithoutDefaultCase(cases) == cases

\* if (queries.length === 0) queries.push({ params: [] })
WithDefaultCase(cases) ==
    IF Len(cases) = 0 THEN Append(cases, [name |-> "", params |-> << >>]) ELSE cases

\* runTargets: an annotated method; its case loop starts
EnterMethod ==
    /\ pc = "keys"
    /\ keyIdx <= Len(CurKeys)
    /\ IsFunction(CurLabel, CurKey)
    /\ meta[CurMethod].defined
    /\ meta' = [meta EXCEPT ![CurMethod].cases = WithDefaultCase(@)]
    /\ caseIdx' = 1
    /\ pc' = "case"
    /\ UNCHANGED <<run, exitCode, err, app, appClosed, dir, results, queries, repoIdx,
                   instIdx, keyIdx, writeIdx, data, pdata, statsOut, histVars, prevVars>>

\* Variant: the logger is not cleared ahead of the call.
BeforeInvokeKeep(qs) == qs

\* this.sqlLogger.clear() ahead of the call
BeforeInvoke(qs) == clear(qs)

\* runTargets: clear the logger and call the target with the case's params
Invoke ==
    /\ pc = "case"
    /\ caseIdx <= Len(meta[CurMethod].cases)
    /\ queries' = BeforeInvoke(queries)
    /\ invoked' = Append(invoked, <<CurCase, meta[CurMethod].cases[caseIdx].params>>)
    /\ pc' = "running"
    /\ UNCHANGED <<run, exitCode, err, app, appClosed, dir, results, meta, loopVars, data,
                   pdata, statsOut, trace, thrown, issued, outcome, prevVars>>

\* runTargets: the case loop of the method is over
MethodDone ==
    /\ pc = "case"
    /\ caseIdx > Len(meta[CurMethod].cases)
    /\ keyIdx' = keyIdx + 1
    /\ pc' = "keys"
    /\ UNCHANGED <<run, exitCode, err, app, appClosed, dir, results, queries, meta,
                   repoIdx, instIdx, caseIdx, writeIdx, data, pdata, statsOut, histVars,
                   prevVars>>

\* In a later run the targets behave as in the previous one.
Replaying == run > 1

\* The running target has the data layer execute a statement: the logger's
\* query hook records it.
TargetRecord ==
    /\ pc = "running"
    /\ Len(issued[CurCase]) < (IF Replaying THEN Len(prevIssued[CurCase]) ELSE MaxStmts)
    /\ LET q == Stmt(CurKey, Len(issued[CurCase]) + 1) IN
         /\ queries' = logQuery(queries, q)
         /\ issued' = [issued EXCEPT ![CurCase] = Append(@, q)]
    /\ UNCHANGED <<pc, run, exitCode, err, app, appClosed, dir, results, meta, loopVars,
                   data, pdata, statsOut, trace, thrown, outcome, invoked, prevVars>>

MayEnd(how) ==
    /\ pc = "running"
    /\ Replaying => /\ Len(issued[CurCase]) = Len(prevIssued[CurCase])
                    /\ how = prevOutcome[CurCase]

\* Variant: the block is put in front.
PushFront(d, block) == <<block>> \o d

\* data.push(...) of runTargets
Push(d, block) == Append(d, block)

\* runTargets after the await: no block when nothing was recorded, else the
\* labelled block
Collect ==
    IF Len(queries) = 0
    THEN data
    ELSE Push(data, Block(QueryLabel(CurLabel, CurKey, meta[CurMethod].cases[caseIdx].name),
                          queries))

\* The target's promise is fulfilled.
TargetResolves ==
    /\ MayEnd("resolve")
    /\ outcome' = [outcome EXCEPT ![CurCase] = "resolve"]
    /\ data' = Collect
    /\ caseIdx' = caseIdx + 1
    /\ pc' = "case"
    /\ UNCHANGED <<run, exitCode, err, app, appClosed, dir, results, queries, meta,
                   repoIdx, instIdx, keyIdx, writeIdx, pdata, statsOut, trace, thrown,
                   issued, invoked, prevVars>>

\* The target's promise is rejected: the catch handler logs the error.
TargetRejects ==
    /\ MayEnd("reject")
    /\ outcome' = [outcome EXCEPT ![CurCase] = "reject"]
    /\ data' = Collect
    /\ caseIdx' = caseIdx + 1
    /\ pc' = "case"
    /\ UNCHANGED <<run, exitCode, err, app, appClosed, dir, results, queries, meta,
                   repoIdx, instIdx, keyIdx, writeIdx, pdata, statsOut, trace, thrown,
                   issued, invoked, prevVars>>

\* The target throws before it returns a promise (or returns no promise, so
\* that .catch is not a function): nothing catches the exception in runTargets.
TargetThrows ==
    /\ MayEnd("throw")
    /\ outcome' = [outcome EXCEPT ![CurCase] = "throw"]
    /\ Throw("process")
    /\ UNCHANGED <<run, exitCode, app, appClosed, dir, results, queries, meta, loopVars,
                   data, pdata, statsOut, trace, issued, invoked, prevVars>>

\* Variant: a repository without blocks is not stored.
StoredIfBlocks(res, name, value) ==
    IF Len(value) > 1 THEN SetResult(res, name, value) ELSE res

\* process: what it stores for the repository
Stored(res, name, value) == SetResult(res, name, value)

\* runTargets returns: process pushes its blocks, goes on to the next nested
\* object or stores the repository's result
RunTargetsReturn ==
    /\ pc = "keys"
    /\ keyIdx > Len(CurKeys)
    /\ pdata' = pdata \o data
    /\ IF instIdx < Len(Instances(Repo))
       THEN /\ instIdx' = instIdx + 1
            /\ keyIdx' = 1
            /\ data' = << >>
            /\ UNCHANGED <<pc, results, repoIdx>>
       ELSE /\ results' = Stored(results, Repo, pdata')
            /\ repoIdx' = repoIdx + 1
            /\ pc' = "process"
            /\ UNCHANGED <<instIdx, keyIdx, data>>
    /\ UNCHANGED <<run, exitCode, err, app, appClosed, dir, queries, meta, caseIdx,
                   writeIdx, statsOut, histVars, prevVars>>

\* run(): every repository is processed; write() begins
ProcessDone ==
    /\ pc = "process"
    /\ repoIdx > Len(repositories)
    /\ pc' = "write"
    /\ writeIdx' = 1
    /\ trace' = Append(trace, "write")
    /\ UNCHANGED <<run, exitCode, err, app, appClosed, dir, results, queries, meta,
                   repoIdx, instIdx, keyIdx, caseIdx, data, pdata, statsOut, thrown,
                   issued, outcome, invoked, prevVars>>

\* write(): one entry of this.results is written to its file
WriteFile ==
    /\ pc = "write"
    /\ writeIdx <= Len(results)
    /\ dir' = writeFile(dir, FileName(results[writeIdx].name),
                        JoinBlocks(results[writeIdx].data))
    /\ writeIdx' = writeIdx + 1
    /\ UNCHANGED <<pc, run, exitCode, err, app, appClosed, results, queries, meta,
                   repoIdx, instIdx, keyIdx, caseIdx, data, pdata, statsOut, histVars,
                   prevVars>>

\* write(): writeFile fails
WriteFileFails ==
    /\ pc = "write"
    /\ writeIdx <= Len(results)
    /\ Throw("write")
    /\ UNCHANGED <<run, exitCode, app, appClosed, dir, results, queries, meta, loopVars,
                   data, pdata, statsOut, trace, issued, outcome, invoked, prevVars>>

\* `Wrote ${...} files`, `Generated ${...} queries`
StatsLines(res) == <<Len(res), Len(Flat(res))>>

\* write() returned; stats() prints the summary; the try block ends normally
Stats ==
    /\ pc = "write"
    /\ writeIdx > Len(results)
    /\ statsOut' = StatsLines(results)
    /\ trace' = Append(trace, "stats")
    /\ pc' = "finally"
    /\ UNCHANGED <<run, exitCode, err, app, appClosed, dir, results, queries, meta,
                   loopVars, data, pdata, thrown, issued, outcome, invoked, prevVars>>

\* finally: close(), which closes the application when there is one
Close ==
    /\ pc = "finally"
    /\ trace' = Append(trace, "close")
    /\ appClosed' = app
    /\ pc' = "settled"
    /\ UNCHANGED <<run, exitCode, err, app, dir, results, queries, meta, loopVars, data,
                   pdata, statsOut, thrown, issued, outcome, invoked, prevVars>>

\* finally: app.close() throws
CloseFails ==
    /\ pc = "finally"
    /\ app
    /\ trace' = Append(trace, "close")
    /\ appClosed' = TRUE
    /\ pc' = "settled"
    /\ err' = TRUE
    /\ thrown' = thrown \cup {"close"}
    /\ UNCHANGED <<run, exitCode, app, dir, results, queries, meta, loopVars, data,
                   pdata, statsOut, issued, outcome, invoked, prevVars>>

\* .then(() => { console.log('Done'); process.exit(0) })
OnFulfilled ==
    /\ pc = "settled"
    /\ ~err
    /\ exitCode' = 0
    /\ pc' = "exited"
    /\ UNCHANGED <<run, err, app, appClosed, dir, results, queries, meta, loopVars, data,
                   pdata, statsOut, histVars, prevVars>>

\* Variant: the rejection handler exits with status 0.
OnRejectedExitsZero ==
    /\ pc = "settled"
    /\ err
    /\ exitCode' = 0
    /\ pc' = "exited"
    /\ UNCHANGED <<run, err, app, appClosed, dir, results, queries, meta, loopVars, data,
                   pdata, statsOut, histVars, prevVars>>

\* .catch((error) => { ...; process.exit(1) })
OnRejected ==
    /\ pc = "settled"
    /\ err
    /\ exitCode' = 1
    /\ pc' = "exited"
    /\ UNCHANGED <<run, err, app, appClosed, dir, results, queries, meta, loopVars, data,
                   pdata, statsOut, histVars, prevVars>>

\* The tool is started again after a run that succeeded; the targets will
\* record what they recorded in that run.
Restart ==
    /\ pc = "exited"
    /\ exitCode = 0
    /\ run < NumRuns
    /\ run' = run + 1
    /\ prevDir' = dir
    /\ prevIssued' = issued
    /\ prevOutcome' = outcome
    /\ pc' = "setup"
    /\ exitCode' = -1
    /\ err' = FALSE
    /\ app' = FALSE
    /\ appClosed' = FALSE
    /\ results' = << >>
    /\ queries' = << >>
    /\ meta' = [m \in MethodIds |-> DeclaredQueries(m)]
    /\ repoIdx' = 1 /\ instIdx' = 1 /\ keyIdx' = 1 /\ caseIdx' = 1 /\ writeIdx' = 1
    /\ data' = << >>
    /\ pdata' = << >>
    /\ statsOut' = << >>
    /\ trace' = << >>
    /\ thrown' = {}
    /\ issued' = NoIssued
    /\ outcome' = NoOutcome
    /\ invoked' = << >>
    /\ UNCHANGED dir

Next ==
    \/ Setup
    \/ ProcessStart
    \/ SkipNonFunction
    \/ SkipNoMetadata
    \/ EnterMethod
    \/ Invoke
    \/ MethodDone
    \/ TargetRecord
    \/ TargetResolves
    \/ TargetRejects
    \/ TargetThrows
    \/ RunTargetsReturn
    \/ ProcessDone
    \/ WriteFile
    \/ WriteFileFails
    \/ Stats
    \/ Close
    \/ CloseFails
    \/ OnFulfilled
    \/ OnRejected

\* One run of the tool.
Spec == Init /\ [][Next]_vars

NextTwice == Next \/ Restart

\* Runs of the tool one after another on the same directory.
SpecTwice == Init /\ [][NextTwice]_vars

----------------------------------------------------------------------------
\* Vocabulary of the properties.

Pos(seq, x) == CHOOSE i \in DOMAIN seq : seq[i] = x

\* The cases of the annotated methods, in the order run() reaches them.
Rank(c) ==
    <<Pos(repositories, c[1][1]), Pos(Instances(c[1][1]), c[1]),
      Pos(getPropertyNames(c[1]), c[2]), c[3]>>

Before(c, d) ==
    \E k \in 1..4 : /\ \A j \in 1..(k - 1) : Rank(c)[j] = Rank(d)[j]
                    /\ Rank(c)[k] < Rank(d)[k]

\* The header line of the block of a case.
HeaderOf(c) ==
    <<"--">> \o QueryLabel(c[1], c[2],
                          WithDefaultCase(DeclaredQueries(<<c[1], c[2]>>).cases)[c[3]].name)

IsBlockOf(b, c) == b[1] = HeaderOf(c)

\* The blocks of a data list of process / this.results (its first element is
\* the provenance note).
BlocksOf(d) == Tail(d)

\* Every block the run holds: in runTargets' list, in process' list (after the
\* note) and in this.results.
AllBlocks ==
    Range(data) \cup (IF pdata = << >> THEN {} ELSE Range(BlocksOf(pdata)))
        \cup UNION {Range(BlocksOf(results[i].data)) : i \in DOMAIN results}

Settled(c) == outcome[c] # "none"
Productive(c) == issued[c] # << >>
CasesOfRepo(name) == {c \in CaseIds : c[1][1] = name}
Succeeded == pc = "exited" /\ exitCode = 0
ExpectedFiles == {FileName(repositories[i]) : i \in DOMAIN repositories}
FullTrace == <<"setup", "process", "write", "stats", "close">>

\* C1: when an invocation throws or rejects, the run is not aborted: every
\* other case is still invoked and the write phase still produces the files
\* (no failure of setup, file writing or teardown assumed).
C1Claim ==
    (/\ pc = "exited"
     /\ \E c \in CaseIds : outcome[c] \in {"reject", "throw"}
     /\ thrown \cap {"setup", "write", "close"} = {})
    => /\ \A c \in CaseIds : Settled(c)
       /\ DOMAIN dir.files = ExpectedFiles

\* C2: in every run close() is executed, once, after the last phase that ran
\* and before run() hands its outcome to the top level; an application that
\* was created is closed.
C2Teardown ==
    /\ pc \in {"settled", "exited"} =>
          /\ trace # << >>
          /\ trace[Len(trace)] = "close"
          /\ Cardinality({i \in DOMAIN trace : trace[i] = "close"}) = 1
          /\ app => appClosed
    /\ pc \notin {"settled", "exited"} => \A i \in DOMAIN trace : trace[i] # "close"

C2Witness ==
    /\ pc = "exited"
    /\ thrown = {"write"}
    /\ trace = <<"setup", "process", "write", "close">>
    /\ appClosed

\* C3: the exit status is 1 exactly when some phase let an error escape and 0
\* exactly when the run completed normally; rejections of target methods
\* caught in runTargets do not count.
C3ExitStatus ==
    /\ pc # "exited" => exitCode = -1
    /\ pc = "exited" =>
          /\ exitCode \in {0, 1}
          /\ exitCode = 1 <=> thrown # {}
          /\ exitCode = 0 <=> (thrown = {} /\ trace = FullTrace)

C3Witness ==
    /\ pc = "exited"
    /\ exitCode = 0
    /\ \E c \in CaseIds : outcome[c] = "reject"

\* C4 as stated: after a successful run every file of the directory belongs
\* to a repository of the list that produced at least one block.
C4Claim ==
    Succeeded =>
        \A f \in DOMAIN dir.files :
            \E i \in DOMAIN repositories :
                /\ f = FileName(repositories[i])
                /\ \E c \in CasesOfRepo(repositories[i]) : Productive(c)

\* C4 amended: after a successful run the directory holds exactly one file
\* per repository of the list, and the file of a repository without blocks
\* holds the provenance line alone.
C4FilePerRepository ==
    Succeeded =>
        /\ DOMAIN dir.files = ExpectedFiles
        /\ \A i \in DOMAIN repositories :
              (\A c \in CasesOfRepo(repositories[i]) : ~Productive(c))
                  => dir.files[FileName(repositories[i])] = <<NOTE>>

C4Witness ==
    /\ Succeeded
    /\ \A c \in CasesOfRepo("AccessRepository") : ~Productive(c)
    /\ \E c \in CasesOfRepo("AlbumRepository") : Productive(c)
    /\ dir.files[FileName("AccessRepository")] = <<NOTE>>

\* C5: after a successful run the summary gives the number of files written
\* and the number of blocks, i.e. of cases that recorded a statement.
C5Claim ==
    Succeeded =>
        statsOut = <<Cardinality(DOMAIN dir.files),
                     Cardinality({c \in CaseIds : Productive(c)})>>

\* C7: results follow the repository list, the files are written in that
\* order, and the blocks of a repository follow the order of its methods and
\* of their cases.
C7Order ==
    /\ \A i, j \in DOMAIN results :
          i < j => Pos(repositories, results[i].name) < Pos(repositories, results[j].name)
    /\ pc = "write" =>
          DOMAIN dir.files = {FileName(results[i].name) : i \in 1..(writeIdx - 1)}
    /\ \A r \in DOMAIN results :
          LET bs == BlocksOf(results[r].data) IN
            /\ \A i \in DOMAIN bs : \E c \in CasesOfRepo(results[r].name) : IsBlockOf(bs[i], c)
            /\ \A i, j \in DOMAIN bs :
                  i < j => \A c, d \in CaseIds :
                              (IsBlockOf(bs[i], c) /\ IsBlockOf(bs[j], d)) => Before(c, d)

C7Witness ==
    /\ Succeeded
    /\ Len(results) = 2
    /\ Len(results[2].data) = 4
    /\ Len(results[1].data) = 2

\* C8: every block holds exactly the statements issued during its own case,
\* in the order they were issued, and while a target runs the buffer holds
\* the statements of that invocation alone.
C8Attribution ==
    /\ \A b \in AllBlocks :
          \E c \in CaseIds : IsBlockOf(b, c) /\ Tail(b) = issued[c]
    /\ pc = "running" => queries = issued[CurCase]

C8Witness ==
    /\ Succeeded
    /\ \A c \in CaseIds : Len(issued[c]) = 2
    /\ Len(results[2].data) = 4

\* C9: a case whose invocation has ended, fulfilled or failed, has a block if
\* and only if it recorded a statement, and no block is without statements.
C9Claim ==
    /\ \A b \in AllBlocks : Len(b) > 1
    /\ \A c \in CaseIds :
          Settled(c) => ((\E b \in AllBlocks : IsBlockOf(b, c)) <=> Productive(c))

InvocationsOf(m) == {i \in DOMAIN invoked : invoked[i][1][1] = m[1] /\ invoked[i][1][2] = m[2]}

C6Idempotent ==
    /\ (run > 1 /\ Succeeded) => dir = prevDir
    /\ pc \in {"process", "keys", "case", "running"} =>
          dir = [exists |-> TRUE, files |-> EmptyFiles]
    /\ (pc = "write" /\ writeIdx = 1) => dir = [exists |-> TRUE, files |-> EmptyFiles]

C6Witness ==
    /\ run = 2
    /\ Succeeded
    /\ prevOutcome # NoOutcome
    /\ \E c \in CaseIds : Productive(c)
    /\ DOMAIN dir.files = ExpectedFiles

====
